---------------------------- MODULE Spec2Model ----------------------------
(***************************************************************************)
(* A model of the tabu crate: the generic search engine tabu_search        *)
(* (src/search/tabu.rs) and the clustering adapter cluster_tabu            *)
(* (src/clustering/cluster_tabu.rs).                                       *)
(*                                                                         *)
(* One call of tabu_search is a deterministic run of a small state machine *)
(* whose program counter pc walks through the function body:               *)
(*   "cluster" -> "entry" -> "loop" <-> "inner" -> "done".                 *)
(* All nondeterminism is in the arguments of the call, chosen in Init.     *)
(*                                                                         *)
(* Costs are f64 values.  They are modelled by integers, with the two      *)
(* infinities as a top and a bottom element of the order (the code itself  *)
(* uses f64::INFINITY as a sentinel, tabu.rs:32, and the crate's test uses *)
(* f64::NEG_INFINITY as a cost).  NaN is outside the model: the cost       *)
(* function is taken to be real-valued or infinite.                        *)
(*                                                                         *)
(* An Option<T> is modelled as a sequence: << >> is None, <<x>> is Some(x).*)
(***************************************************************************)
EXTENDS Integers, Sequences, FiniteSets, TLC

VARIABLES
    \* ---- the arguments of the call (never changed by the run)
    kind,            \* "graph": states are 0..n with a tabulated neighbor function
                     \* "cluster": states are partitions, neighbors by descendants()
    nbr,             \* graph: the neighbor function, state -> sequence of states
    costf,           \* graph: the cost function, state -> cost
                     \* cluster: a record describing the caller's cost closure
    items,           \* cluster_tabu: the items vector
    n_clusters,      \* cluster_tabu: the number of clusters
    state,           \* tabu_search: the initial state
    max_iterations,  \* tabu_search: the iteration budget
    stopping_cost,   \* tabu_search: Option<f64>
    \* ---- the locals of tabu_search
    pc,
    tabu_list,
    best,
    best_cost,
    current,
    iter,                   \* iterations of the outer loop completed
    queue,                  \* what is left of the iterator descendants(&current)
    best_descendant,        \* Option<State>
    best_descendant_cost,
    result,                 \* Option<State>: the value returned
    \* ---- observation of the run (no effect on it)
    early,           \* the return was the early return of tabu.rs:48
    cost_calls,      \* number of calls of the cost closure
    desc_calls,      \* number of calls of the descendants closure
    evaluated,       \* the descendants whose cost was evaluated (tabu.rs:45)
    walk,            \* the successive values of current
    stall_seen,      \* some iteration ended with best_descendant = None
    scanned          \* the descendants whose cost was evaluated in the
                     \* iteration under way, in the order of evaluation

args == <<kind, nbr, costf, items, n_clusters, state, max_iterations, stopping_cost>>
locals == <<pc, tabu_list, best, best_cost, current, iter, queue,
            best_descendant, best_descendant_cost, result>>
observed == <<early, cost_calls, desc_calls, evaluated, walk, stall_seen, scanned>>
vars == <<args, locals, observed>>

-----------------------------------------------------------------------------
(* Bounds of the model *)

\* graph runs: the states are 0..MaxState
MaxState == 2
\* graph runs: the finite costs are 0..MaxCost
MaxCost == 1
\* max_iterations ranges over 0..MaxIter
MaxIter == 3
\* line runs: the line is 0..n for n in 1..MaxLine
MaxLine == 3
\* cluster runs: the items are values in 1..MaxItem
MaxItem == 2
\* cluster runs: the items vector has at most MaxLen elements
MaxLen == 2
\* cluster runs: n_clusters ranges over 1..MaxClusters
MaxClusters == 3
\* the clustering scenario: the items are 1..2m for m in 1..MaxHalf
MaxHalf == 5

\* the arguments of the crate's tests
\* tabu.rs:95, the upper end of the line
TestLineEnd == 10
\* tabu.rs:97 and cluster_tabu.rs:97, max_iterations
TestMaxIterations == 100

\* f64::INFINITY and f64::NEG_INFINITY: above and below every finite cost used
INFINITY == 1000000
NEG_INFINITY == -1000000

None == << >>
Some(x) == <<x>>
IsSome(o) == o # << >>
Unwrap(o) == o[1]

-----------------------------------------------------------------------------
(* Sequences *)

RECURSIVE SeqOfSet(_, _)
\* the elements of the set S of integers as a sequence, ascending or descending
SeqOfSet(S, asc) ==
    IF S = {} THEN << >>
    ELSE LET x == IF asc THEN CHOOSE y \in S : \A z \in S : y <= z
                         ELSE CHOOSE y \in S : \A z \in S : y >= z
         IN  <<x>> \o SeqOfSet(S \ {x}, asc)

Range(s) == {s[i] : i \in 1..Len(s)}


RECURSIVE Flatten(_)
\* the concatenation of a sequence of sequences
Flatten(ss) == IF ss = << >> THEN << >> ELSE Head(ss) \o Flatten(Tail(ss))

Abs(x) == IF x < 0 THEN -x ELSE x
MaxOf(S) == CHOOSE x \in S : \A y \in S : y <= x

RECURSIVE SumSeq(_)
SumSeq(s) == IF s = << >> THEN 0 ELSE Head(s) + SumSeq(Tail(s))

-----------------------------------------------------------------------------
(* The closures the crate's tests pass to tabu_search *)

\* tabu.rs:95: (state - 1..=state + 1).filter(|&x| x >= 0 && x <= 10), with
\* the upper end n of the line as a parameter
LineDescendants(s, n) ==
    SelectSeq(<<s - 1, s, s + 1>>, LAMBDA x : x >= 0 /\ x <= n)

\* tabu.rs:96: if state < 3 { state - 3 } else { 3 - state }
BarrierCost(s) == IF s < 3 THEN s - 3 ELSE 3 - s

\* diameter.rs: the largest pairwise distance, None for fewer than two items;
\* the distance is the test's |x, y| (x - y).abs()
Diameter(cluster) ==
    LET D == {Abs(cluster[i] - cluster[j]) :
                 <<i, j>> \in {p \in (1..Len(cluster)) \X (1..Len(cluster)) : p[1] < p[2]}}
    IN  IF D = {} THEN None ELSE Some(MaxOf(D))

\* cluster_tabu.rs:102-109: the maximum over the clusters of the diameter,
\* a cluster without a diameter counting as NEG_INFINITY
DiameterCost(clusters) ==
    LET d(k) == IF IsSome(Diameter(clusters[k])) THEN Unwrap(Diameter(clusters[k]))
                ELSE NEG_INFINITY
    IN  MaxOf({NEG_INFINITY} \cup {d(k) : k \in 1..Len(clusters)})

\* A family of caller cost closures over partitions: an item x in cluster k
\* costs w[k] * x, and the cost of a partition is the sum over its items
WeightCost(w, clusters) ==
    SumSeq([k \in 1..Len(clusters) |-> w[k] * SumSeq(clusters[k])])

-----------------------------------------------------------------------------
(* cluster_tabu's neighbor generator *)

\* Vec::retain(|x| x != item), cluster_tabu.rs:54
Retain(cluster, item) == SelectSeq(cluster, LAMBDA x : x # item)

\* cluster_tabu.rs:53-55: the move of the item at position p of cluster i to
\* cluster j
MoveItem(clusters, i, p, j) ==
    LET item == clusters[i][p]
    IN  [k \in 1..Len(clusters) |->
            IF k = i THEN Retain(clusters[i], item)
            ELSE IF k = j THEN Append(clusters[j], item)
            ELSE clusters[k]]

\* cluster_tabu.rs:46-50: the other clusters, in increasing order
OtherClusters(clusters, i) ==
    SelectSeq([j \in 1..Len(clusters) |-> j], LAMBDA j : j # i)

\* cluster_tabu.rs:30-67
ClusterDescendants(clusters) ==
    Flatten([i \in 1..Len(clusters) |->
        Flatten([p \in 1..Len(clusters[i]) |->
            [q \in 1..Len(OtherClusters(clusters, i)) |->
                MoveItem(clusters, i, p, OtherClusters(clusters, i)[q])]])])

\* cluster_tabu.rs:70-75: all items in the first cluster, the others empty
InitialClusters(its, n) == <<its>> \o [k \in 1..(n - 1) |-> << >>]

-----------------------------------------------------------------------------
(* The closures of the run *)

\* the descendants closure, called at tabu.rs:38
Descendants(s) ==
    IF kind = "cluster" THEN ClusterDescendants(s) ELSE nbr[s]

\* the cost closure, called at tabu.rs:25 and tabu.rs:45
Cost(s) ==
    IF kind = "cluster"
    THEN IF costf.kind = "diameter" THEN DiameterCost(s)
         ELSE WeightCost(costf.w, s)
    ELSE costf[s]

-----------------------------------------------------------------------------
(* The steps of tabu_search *)

\* a tabu history that keeps only the state being left
TabuInsert_Window(tabu, s) == {s}

\* tabu.rs:35
TabuInsert(tabu, s) == tabu \cup {s}

\* the tabu test left out
IsTabu_Never(tabu, d) == FALSE

\* the comparison of tabu.rs:53 letting the last of equal costs win
ImprovesDescendant_OrEqual(c, bdc) == c <= bdc

\* tabu.rs:40
IsTabu(tabu, d) == d \in tabu

\* the early return taken at the threshold itself
BelowStoppingCost_OrEqual(sc, c) == IsSome(sc) /\ c <= Unwrap(sc)

\* tabu.rs:46-47
BelowStoppingCost(sc, c) == IsSome(sc) /\ c < Unwrap(sc)

\* tabu.rs:53
ImprovesDescendant(c, bdc) == c < bdc

\* the comparison of tabu.rs:62 the wrong way round
ImprovesBest_Flipped(bdc, bc) == bdc > bc

\* tabu.rs:62
ImprovesBest(bdc, bc) == bdc < bc

\* tabu.rs:67
Advance(cur, bd) == Unwrap(bd)

\* the loop as 0..=max_iterations
LoopContinues_Inclusive(i, n) == i <= n

\* tabu.rs:29: for _ in 0..max_iterations, after i iterations
LoopContinues(i, n) == i < n

\* the last iteration's best descendant returned instead of best
ReturnValue_LastDescendant(b, bd) == bd

\* tabu.rs:71: the value returned when the loop is over
ReturnValue(b, bd) == Some(b)

\* cluster_tabu without its special case
IsSingleCluster_Never(n) == FALSE

\* cluster_tabu.rs:21
IsSingleCluster(n) == n = 1

\* cluster_tabu.rs:21-23 and 69-83: the single cluster is returned at once;
\* otherwise the initial partition is handed to tabu_search
ClusterTabu ==
    /\ pc = "cluster"
    /\ IF IsSingleCluster(n_clusters)
       THEN /\ result' = Some(<<items>>)
            /\ pc' = "done"
            /\ state' = state
       ELSE /\ state' = InitialClusters(items, n_clusters)
            /\ pc' = "entry"
            /\ result' = result
    /\ UNCHANGED <<kind, nbr, costf, items, n_clusters, max_iterations, stopping_cost>>
    /\ UNCHANGED <<tabu_list, best, best_cost, current, iter, queue,
                   best_descendant, best_descendant_cost>>
    /\ UNCHANGED observed

\* tabu.rs:23-26
TabuSearchEntry ==
    /\ pc = "entry"
    /\ tabu_list' = {}
    /\ best' = state
    /\ best_cost' = Cost(state)
    /\ current' = state
    /\ cost_calls' = cost_calls + 1
    /\ walk' = <<state>>
    /\ pc' = "loop"
    /\ UNCHANGED args
    /\ UNCHANGED <<iter, queue, best_descendant, best_descendant_cost, result>>
    /\ UNCHANGED <<early, desc_calls, evaluated, stall_seen, scanned>>

\* tabu.rs:29-38: the head of one iteration
BeginIteration ==
    /\ pc = "loop"
    /\ LoopContinues(iter, max_iterations)
    /\ best_descendant' = None
    /\ best_descendant_cost' = INFINITY
    /\ tabu_list' = TabuInsert(tabu_list, current)
    /\ queue' = Descendants(current)
    /\ desc_calls' = desc_calls + 1
    /\ scanned' = << >>
    /\ pc' = "inner"
    /\ UNCHANGED args
    /\ UNCHANGED <<best, best_cost, current, iter, result>>
    /\ UNCHANGED <<early, cost_calls, evaluated, walk, stall_seen>>

\* tabu.rs:38-56: the body of the inner loop for the next descendant
ConsiderDescendant ==
    /\ pc = "inner"
    /\ queue # << >>
    /\ LET descendant == Head(queue)
           descendant_cost == Cost(descendant)
       IN  IF IsTabu(tabu_list, descendant)
           THEN /\ queue' = Tail(queue)
                /\ UNCHANGED <<pc, best_descendant, best_descendant_cost, result>>
                /\ UNCHANGED <<early, cost_calls, evaluated, scanned>>
           ELSE /\ cost_calls' = cost_calls + 1
                /\ evaluated' = evaluated \cup {descendant}
                /\ scanned' = Append(scanned, descendant)
                /\ IF BelowStoppingCost(stopping_cost, descendant_cost)
                   THEN /\ result' = Some(descendant)
                        /\ early' = TRUE
                        /\ pc' = "done"
                        /\ UNCHANGED <<queue, best_descendant, best_descendant_cost>>
                   ELSE /\ IF ImprovesDescendant(descendant_cost, best_descendant_cost)
                           THEN /\ best_descendant' = Some(descendant)
                                /\ best_descendant_cost' = descendant_cost
                           ELSE UNCHANGED <<best_descendant, best_descendant_cost>>
                        /\ queue' = Tail(queue)
                        /\ UNCHANGED <<pc, result, early>>
    /\ UNCHANGED args
    /\ UNCHANGED <<tabu_list, best, best_cost, current, iter>>
    /\ UNCHANGED <<desc_calls, walk, stall_seen>>

\* tabu.rs:59-69: the end of one iteration
EndIteration ==
    /\ pc = "inner"
    /\ queue = << >>
    /\ IF IsSome(best_descendant)
       THEN /\ IF ImprovesBest(best_descendant_cost, best_cost)
               THEN /\ best' = Unwrap(best_descendant)
                    /\ best_cost' = best_descendant_cost
               ELSE UNCHANGED <<best, best_cost>>
            /\ current' = Advance(current, best_descendant)
            /\ walk' = Append(walk, current')
            /\ UNCHANGED stall_seen
       ELSE /\ stall_seen' = TRUE
            /\ UNCHANGED <<best, best_cost, current, walk>>
    /\ iter' = iter + 1
    /\ pc' = "loop"
    /\ UNCHANGED args
    /\ UNCHANGED <<tabu_list, queue, best_descendant, best_descendant_cost, result>>
    /\ UNCHANGED <<early, cost_calls, desc_calls, evaluated, scanned>>

\* tabu.rs:71
ReturnBest ==
    /\ pc = "loop"
    /\ ~LoopContinues(iter, max_iterations)
    /\ result' = ReturnValue(best, best_descendant)
    /\ pc' = "done"
    /\ UNCHANGED args
    /\ UNCHANGED <<tabu_list, best, best_cost, current, iter, queue,
                   best_descendant, best_descendant_cost>>
    /\ UNCHANGED observed

-----------------------------------------------------------------------------
(* The calls *)

\* the values of the locals before tabu.rs:23 has run
NotStarted ==
    /\ tabu_list = {}
    /\ best = state
    /\ best_cost = 0
    /\ current = state
    /\ iter = 0
    /\ queue = << >>
    /\ best_descendant = None
    /\ best_descendant_cost = INFINITY
    /\ result = None
    /\ early = FALSE
    /\ cost_calls = 0
    /\ desc_calls = 0
    /\ evaluated = {}
    /\ walk = << >>
    /\ stall_seen = FALSE
    /\ scanned = << >>

States == 0..MaxState
Costs == (0..MaxCost) \cup {INFINITY}
StoppingCosts == {None} \cup {Some(c) : c \in 1..(MaxCost + 1)}

\* the neighbor sequences of the graph runs: any set of states, enumerated in
\* ascending or in descending order
NeighborSeqs == {SeqOfSet(S, asc) : S \in SUBSET States, asc \in BOOLEAN}

\* a call of tabu_search on states 0..MaxState from state 0, with any
\* neighbor function, any cost function, any budget and any stopping cost
InitGraph ==
    /\ kind = "graph"
    /\ nbr \in [States -> NeighborSeqs]
    /\ costf \in [States -> Costs]
    /\ items = << >>
    /\ n_clusters = 0
    /\ state = 0
    /\ max_iterations \in 0..MaxIter
    /\ stopping_cost \in StoppingCosts
    /\ pc = "entry"
    /\ NotStarted

NextSearch ==
    \/ TabuSearchEntry
    \/ BeginIteration
    \/ ConsiderDescendant
    \/ EndIteration
    \/ ReturnBest

Spec == InitGraph /\ [][NextSearch]_vars


\* the line of test_tabu_search_cross_barier with any upper end and any cost
\* function, and the test itself
InitLine ==
    /\ kind = "graph"
    /\ \/ \E n \in 1..MaxLine :
            /\ nbr = [s \in 0..n |-> LineDescendants(s, n)]
            /\ costf \in [0..n -> Costs]
            /\ max_iterations \in {n, n + 1}
       \/ /\ nbr = [s \in 0..TestLineEnd |-> LineDescendants(s, TestLineEnd)]
          /\ costf = [s \in 0..TestLineEnd |-> BarrierCost(s)]
          /\ max_iterations = TestMaxIterations
    /\ items = << >>
    /\ n_clusters = 0
    /\ state = 0
    /\ stopping_cost = None
    /\ pc = "entry"
    /\ NotStarted

SpecLine == InitLine /\ [][NextSearch]_vars

ItemVectors == UNION {[1..len -> 1..MaxItem] : len \in 0..MaxLen}

\* the caller's cost closures of the cluster runs
ClusterCosts(n) ==
    {[kind |-> "diameter"]} \cup
    {[kind |-> "weights", w |-> w] : w \in [1..n -> 0..MaxCost]}

\* a call of cluster_tabu with any items vector (repeated items included),
\* any n_clusters >= 1, any budget and any stopping cost; and the call of
\* test_clustering_with_diameter_cost on the items 1..2m
InitCluster ==
    /\ kind = "cluster"
    /\ nbr = << >>
    /\ \/ /\ items \in ItemVectors
          /\ n_clusters \in 1..MaxClusters
          /\ costf \in ClusterCosts(n_clusters)
          /\ max_iterations \in 0..MaxIter
          /\ stopping_cost \in StoppingCosts
       \/ /\ \E m \in 1..MaxHalf : items = [k \in 1..(2 * m) |-> k]
          /\ n_clusters = 2
          /\ costf = [kind |-> "diameter"]
          /\ max_iterations = TestMaxIterations
          /\ stopping_cost = None
    /\ state = None
    /\ pc = "cluster"
    /\ NotStarted

NextCluster ==
    \/ ClusterTabu
    \/ NextSearch

SpecCluster == InitCluster /\ [][NextCluster]_vars

-----------------------------------------------------------------------------
(* Vocabulary of the properties *)

Done == pc = "done"
Returned == Unwrap(result)

RECURSIVE ReachableFrom(_)
\* graph runs: the states some path of one or more neighbor steps leads to
\* from a state of S, together with S
ReachableFrom(S) ==
    LET T == S \cup UNION {Range(nbr[s]) : s \in S}
    IN  IF T = S THEN S ELSE ReachableFrom(T)

\* graph runs: the states reachable from the initial state in one or more
\* steps of the neighbor function
Reachable == ReachableFrom(Range(nbr[state]))

Count(s, v) == Cardinality({i \in 1..Len(s) : s[i] = v})

\* the sequences a and b hold the same elements the same number of times
IsPermutation(a, b) ==
    /\ Len(a) = Len(b)
    /\ \A v \in Range(a) \cup Range(b) : Count(a, v) = Count(b, v)

\* p has n_clusters groups and every input item sits in exactly one of them
IsPartitionOfItems(p) ==
    /\ Len(p) = n_clusters
    /\ IsPermutation(Flatten(p), items)

-----------------------------------------------------------------------------
(* C1 *)

\* C1: the cost of the state tabu_search returns is less than or equal to the
\* cost of the initial state, for any arguments.
C1_MonotonicImprovement ==
    Done => Cost(Returned) <= Cost(state)

-----------------------------------------------------------------------------
(* C2 *)

\* C2 as stated: if stopping_cost is set and some other state reachable from
\* the initial state has a cost strictly below it, tabu_search returns before
\* completing max_iterations iterations, with a state of cost strictly below
\* stopping_cost.
C2_AsStated ==
    (Done /\ IsSome(stopping_cost)
          /\ \E s \in Reachable \ {state} : costf[s] < Unwrap(stopping_cost))
        => /\ early
           /\ iter < max_iterations
           /\ Cost(Returned) < Unwrap(stopping_cost)

\* C2 amended: if stopping_cost is set and the run evaluates a non-tabu
\* neighbor of cost strictly below it, tabu_search returns that neighbor at
\* once, before completing max_iterations iterations; a state returned early
\* has a cost strictly below stopping_cost.
C2_EarlyExit ==
    /\ \A d \in evaluated :
          (IsSome(stopping_cost) /\ Cost(d) < Unwrap(stopping_cost))
            => Done /\ early /\ result = Some(d)
    /\ early => /\ Done
                /\ IsSome(stopping_cost)
                /\ iter < max_iterations
                /\ Returned \in evaluated
                /\ Cost(Returned) < Unwrap(stopping_cost)

\* an early return in a later iteration than the first
C2_Witness ==
    Done /\ early /\ iter >= 1 /\ Cost(Returned) < Unwrap(stopping_cost)

-----------------------------------------------------------------------------
(* C3 *)

\* C3: when the run goes through all max_iterations iterations without an
\* early return, the state returned is best, and no state whose cost was
\* evaluated, the initial state included, has a strictly lower cost.
C3_BestSoFar ==
    (Done /\ ~early) =>
        /\ result = Some(best)
        /\ best_cost = Cost(best)
        /\ Cost(Returned) <= Cost(state)
        /\ \A d \in evaluated : Cost(Returned) <= Cost(d)

\* a full run that evaluated two neighbors and returns one of them, found
\* after a move to a state no better than the one it left
C3_Witness ==
    /\ Done /\ ~early
    /\ Cardinality(evaluated) >= 2
    /\ Returned # state
    /\ Len(walk) >= 3
    /\ Cost(walk[2]) >= Cost(walk[1])
    /\ Returned = walk[3]

-----------------------------------------------------------------------------
(* C4 *)

\* C4: every partition cluster_tabu holds as the current state of the search,
\* and the partition it returns, has n_clusters groups whose concatenation is
\* a permutation of the input items.
C4_PartitionInvariant ==
    /\ pc \in {"loop", "inner"} => IsPartitionOfItems(current)
    /\ Done => IsPartitionOfItems(Returned)

\* C4 where it does hold: when no item occurs twice in the items vector
C4_DistinctItems ==
    (\A i, j \in 1..Len(items) : i # j => items[i] # items[j])
        => C4_PartitionInvariant

-----------------------------------------------------------------------------
(* C5 *)

\* C5: with max_iterations = 0 the initial state is returned, the cost
\* closure has been called once and the descendants closure never.
C5_ZeroBudget ==
    (Done /\ max_iterations = 0) =>
        /\ result = Some(state)
        /\ cost_calls = 1
        /\ desc_calls = 0
        /\ evaluated = {}
        /\ ~early

\* a call with no budget, a stopping cost, and a neighbor below it
C5_Witness ==
    /\ Done /\ max_iterations = 0
    /\ IsSome(stopping_cost)
    /\ \E d \in Range(nbr[state]) :
          d # state /\ costf[d] < Unwrap(stopping_cost) /\ costf[d] < costf[state]

-----------------------------------------------------------------------------
(* C6 *)

\* C6: with n_clusters = 1 cluster_tabu returns the one group made of the
\* items vector, and neither the cost closure nor tabu_search has run.
C6_SingleCluster ==
    (kind = "cluster" /\ n_clusters = 1) =>
        /\ pc \in {"cluster", "done"}
        /\ cost_calls = 0
        /\ desc_calls = 0
        /\ walk = << >>
        /\ Done => result = Some(<<items>>)

\* a single-cluster call on two items, with a budget and a stopping cost
C6_Witness ==
    /\ kind = "cluster" /\ n_clusters = 1
    /\ Done
    /\ Len(items) = 2
    /\ max_iterations > 0
    /\ IsSome(stopping_cost)

-----------------------------------------------------------------------------
(* C7 *)

\* C7: if the neighbor function yields nothing for the initial state,
\* tabu_search returns the initial state.
C7_EmptyNeighborhood ==
    (Done /\ nbr[state] = << >>) => result = Some(state)

\* such a call that went through several iterations, with a stopping cost
C7_Witness ==
    /\ Done /\ nbr[state] = << >>
    /\ iter >= 2
    /\ IsSome(stopping_cost)

-----------------------------------------------------------------------------
(* C8 *)

\* C8: on the line 0..n from state 0, without stopping cost and with
\* max_iterations >= n, the state returned has the least cost of the line.
C8_LineGlobalMinimum ==
    Done => \A s \in DOMAIN costf : Cost(Returned) <= costf[s]

\* C8 where it does hold: when no state of the line has the cost INFINITY
C8_FiniteCosts ==
    (\A s \in DOMAIN costf : costf[s] < INFINITY) => C8_LineGlobalMinimum

-----------------------------------------------------------------------------
(* C9 *)

\* the call of test_clustering_with_diameter_cost on the items 1..2m
IsScenario ==
    /\ kind = "cluster"
    /\ costf = [kind |-> "diameter"]
    /\ n_clusters = 2
    /\ max_iterations = TestMaxIterations
    /\ stopping_cost = None
    /\ Len(items) >= 2
    /\ Len(items) % 2 = 0
    /\ items = [k \in 1..Len(items) |-> k]

\* C9: in the scenario cluster_tabu returns, up to the order of the groups
\* and of the items in a group, the groups 1..m and m+1..2m.
C9_Scenario ==
    (IsScenario /\ Done) =>
        LET m == Len(items) \div 2
        IN  /\ Len(Returned) = 2
            /\ Len(Returned[1]) = m
            /\ Len(Returned[2]) = m
            /\ {Range(Returned[1]), Range(Returned[2])} = {1..m, (m + 1)..(2 * m)}

\* the tested instance, the items 1..10, has returned
C9_Witness ==
    IsScenario /\ Done /\ Len(items) = 10 /\ iter = TestMaxIterations

-----------------------------------------------------------------------------
(* C10 *)

\* C10: a state that has been the current state of an iteration stays in the
\* tabu history: the walk never comes back to a state it has been at, and no
\* such state is returned early.
C10_TabuNeverExpires ==
    /\ \A i, j \in 1..Len(walk) : i < j => walk[i] # walk[j]
    /\ \A i \in 1..(Len(walk) - 1) : walk[i] \in tabu_list
    /\ pc = "inner" => current \in tabu_list
    /\ early => Returned \notin tabu_list /\ Returned \notin Range(walk)

\* a walk of three states whose last state has the first one as a neighbor
C10_Witness ==
    /\ Done
    /\ Len(walk) = 3
    /\ walk[1] \in Range(nbr[walk[3]])
    /\ iter = 3

-----------------------------------------------------------------------------
(* C11 *)

\* a group as an unordered collection: its items with their multiplicities
Unordered(group) == {<<v, Count(group, v)>> : v \in Range(group)}

\* the partitions p and q have, position by position, the same groups as
\* unordered collections
SameGroups(p, q) ==
    /\ Len(p) = Len(q)
    /\ \A k \in 1..Len(p) : Unordered(p[k]) = Unordered(q[k])

\* C11: in a cluster_tabu run the search never advances to a partition whose
\* groups are, position by position and as unordered collections, those of
\* a partition that was the current state earlier in the run.
C11_NoRevisitUnordered ==
    \A i, j \in 1..Len(walk) : i < j => ~SameGroups(walk[i], walk[j])

\* C11 for partitions as the code compares them, groups as ordered vectors:
\* the walk over partitions never repeats a partition
C11_NoRevisitOrdered ==
    \A i, j \in 1..Len(walk) : i < j => walk[i] # walk[j]

-----------------------------------------------------------------------------
(* C12 *)

\* the neighbors of the current state that are not tabu, in the order of
\* the enumeration (during an iteration, when current is in tabu_list)
NonTabu == SelectSeq(Descendants(current), LAMBDA d : d \notin tabu_list)

\* the step that ends an iteration without an early return
IterationEnds == pc = "inner" /\ pc' = "loop"

\* the state d is a non-tabu neighbor of the least cost
IsCheapestNonTabu(d) ==
    /\ d \in Range(NonTabu)
    /\ \A e \in Range(NonTabu) : Cost(d) <= Cost(e)

\* C12: an iteration whose current state has a non-tabu neighbor ends with
\* the current state moved to a non-tabu neighbor of the least cost,
\* whatever that cost is.
C12_UnconditionalAdvance ==
    [][(IterationEnds /\ NonTabu # << >>) => IsCheapestNonTabu(current')]_vars

\* C12 where it does hold: when some non-tabu neighbor has a cost below
\* INFINITY
C12_FiniteCost ==
    [][(IterationEnds /\ \E d \in Range(NonTabu) : Cost(d) < INFINITY)
          => IsCheapestNonTabu(current')]_vars

-----------------------------------------------------------------------------
(* C13 *)

\* the position in descendants(&current) of the descendant at the head of
\* what is left of the iterator
HeadPosition == Len(Descendants(current)) - Len(queue) + 1

\* C13: the state returned early is the first neighbor of the current state,
\* in the order of the enumeration, that is not tabu and costs strictly less
\* than stopping_cost; the neighbors after it have not been evaluated in that
\* iteration, no earlier iteration had evaluated a neighbor below
\* stopping_cost, and the run is over.
C13_FirstFound ==
    early =>
        LET D == Descendants(current)
            k == HeadPosition
        IN  /\ Done
            /\ iter < max_iterations
            /\ queue # << >>
            /\ queue = SubSeq(D, k, Len(D))
            /\ Returned = D[k]
            /\ Returned \notin tabu_list
            /\ Cost(Returned) < Unwrap(stopping_cost)
            /\ \A i \in 1..(k - 1) :
                  D[i] \in tabu_list \/ Cost(D[i]) >= Unwrap(stopping_cost)
            /\ scanned = SelectSeq(SubSeq(D, 1, k), LAMBDA d : d \notin tabu_list)
            /\ \A d \in evaluated \ {Returned} : Cost(d) >= Unwrap(stopping_cost)

\* an early return that leaves a cheaper non-tabu neighbor unevaluated
C13_Witness ==
    /\ early
    /\ \E d \in Range(Tail(queue)) :
          /\ d \notin tabu_list
          /\ d \notin evaluated
          /\ Cost(d) < Cost(Returned)

-----------------------------------------------------------------------------
(* C14 *)

\* C14: with stopping_cost = Some(x) the search stops as soon as it has
\* evaluated a candidate whose cost does not exceed x (cost <= x), and
\* returns it.
C14_DocumentedThreshold ==
    \A d \in evaluated :
        (IsSome(stopping_cost) /\ Cost(d) <= Unwrap(stopping_cost))
            => Done /\ early /\ result = Some(d)

-----------------------------------------------------------------------------
(* C15 *)

\* the first, in the order of the enumeration, of the non-tabu neighbors of
\* the least cost
FirstCheapestNonTabu ==
    LET i == CHOOSE i \in 1..Len(NonTabu) :
                 /\ IsCheapestNonTabu(NonTabu[i])
                 /\ \A j \in 1..(i - 1) : Cost(NonTabu[j]) > Cost(NonTabu[i])
    IN  NonTabu[i]

\* C15: when an iteration moves the current state, it moves it to the first,
\* in the order of the enumeration, of the non-tabu neighbors of the least
\* cost; best is replaced only by a strictly cheaper state; and the state
\* returned after the last iteration is the earliest state of the walk with
\* its cost.
C15_StableTieBreak ==
    [][/\ (IterationEnds /\ IsSome(best_descendant))
            => current' = FirstCheapestNonTabu
       /\ (pc # "entry" /\ best' # best) => Cost(best') < Cost(best)
       /\ (pc = "loop" /\ pc' = "done")
            => \E k \in 1..Len(walk) :
                  /\ walk[k] = Unwrap(result')
                  /\ \A i \in 1..(k - 1) : Cost(walk[i]) # Cost(walk[k])
      ]_vars

\* the end of a scan in which the two first non-tabu neighbors have the same
\* cost, the least of the scan and that of best: the first one is kept
C15_Witness ==
    /\ pc = "inner" /\ queue = << >>
    /\ Len(NonTabu) >= 2
    /\ Cost(NonTabu[1]) = Cost(NonTabu[2])
    /\ NonTabu[1] # NonTabu[2]
    /\ IsCheapestNonTabu(NonTabu[1])
    /\ best_descendant = Some(NonTabu[1])
    /\ best_cost = Cost(NonTabu[1])
    /\ best # NonTabu[1]

-----------------------------------------------------------------------------
(* C16 *)

\* an iteration has found the current state without a non-tabu neighbor
NoNonTabu == current \in tabu_list /\ NonTabu = << >>

\* C16: once an iteration has found the current state without a non-tabu
\* neighbor, the current state, best and the tabu history never change
\* again, the search does not return early, and it returns the best held at
\* that moment.
C16_PermanentStall ==
    [][NoNonTabu =>
          /\ current' = current
          /\ best' = best
          /\ best_cost' = best_cost
          /\ tabu_list' = tabu_list
          /\ NoNonTabu'
          /\ ~early'
          /\ pc' = "done" => result' = Some(best)
      ]_vars

\* a run that moved, then went through two iterations or more at a state
\* whose neighbors are all tabu, and returned a best that is not that state
C16_Witness ==
    /\ Done
    /\ NoNonTabu
    /\ Len(walk) >= 2
    /\ iter >= Len(walk) + 1
    /\ Descendants(current) # << >>
    /\ best # current
    /\ result = Some(best)

-----------------------------------------------------------------------------
(* C17 *)

\* C17: at the end of every iteration (and before the first) best_cost is
\* the cost of best, it is not above its value at the end of the iteration
\* before, it is not above the cost of any state that has been the current
\* state, and best is the initial state or a state that has been current.
C17_BestRecord ==
    [][pc' = "loop" =>
          /\ best_cost' = Cost(best')
          /\ pc # "entry" => best_cost' <= best_cost
          /\ \A i \in 1..Len(walk') : best_cost' <= Cost(walk'[i])
          /\ best' \in Range(walk')
          /\ walk'[1] = state
          /\ walk'[Len(walk')] = current'
      ]_vars

\* the end of an iteration at which best is neither the initial state nor
\* the current state
C17_Witness ==
    /\ pc = "loop"
    /\ iter >= 2
    /\ best # state
    /\ best # current
    /\ best_cost < Cost(state)
    /\ best_cost < Cost(current)

-----------------------------------------------------------------------------
(* C18 *)

\* the moves of one item: group i, position p in it, other group j
MovesOf(clusters) ==
    UNION {{<<i, p, j>> : p \in 1..Len(clusters[i]),
                          j \in (1..Len(clusters)) \ {i}} :
           i \in 1..Len(clusters)}

\* the move a comes before the move b: group first, then item, then target
MoveBefore(a, b) ==
    \/ a[1] < b[1]
    \/ a[1] = b[1] /\ a[2] < b[2]
    \/ a[1] = b[1] /\ a[2] = b[2] /\ a[3] < b[3]

RECURSIVE MovesInOrder(_)
MovesInOrder(M) ==
    IF M = {} THEN << >>
    ELSE LET m == CHOOSE a \in M : \A b \in M \ {a} : MoveBefore(a, b)
         IN  <<m>> \o MovesInOrder(M \ {m})

\* the sequence s without its element at position p
RemoveAt(s, p) == SubSeq(s, 1, p - 1) \o SubSeq(s, p + 1, Len(s))

\* the partition with the single item at position p of group i removed from
\* it and appended at the end of group j, the other groups unchanged
SingleItemMoved(clusters, m) ==
    [k \in 1..Len(clusters) |->
        IF k = m[1] THEN RemoveAt(clusters[k], m[2])
        ELSE IF k = m[3] THEN Append(clusters[k], clusters[m[1]][m[2]])
        ELSE clusters[k]]

\* the neighbors the rule of C18 describes, in its order
NeighborsByRule(clusters) ==
    LET M == MovesInOrder(MovesOf(clusters))
    IN  [n \in 1..Len(M) |-> SingleItemMoved(clusters, M[n])]

\* C18: the neighbor generator yields, for every group in order, every item
\* of it in order and every other group in increasing order, the partition
\* with that single item moved to the end of the other group; there are at
\* most |items| x (n_clusters - 1) neighbors.
C18_NeighborRule ==
    pc \in {"loop", "inner"} =>
        /\ ClusterDescendants(current) = NeighborsByRule(current)
        /\ Len(ClusterDescendants(current)) <= Len(items) * (n_clusters - 1)

\* C18 where it does hold: when no item occurs twice in the items vector
C18_DistinctItems ==
    (\A i, j \in 1..Len(items) : i # j => items[i] # items[j])
        => C18_NeighborRule

-----------------------------------------------------------------------------
(* C19 *)

\* where the call stands: the statement it is at and what is left of the
\* iterator of the inner loop; every step of tabu_search changes it
position == <<pc, queue>>

\* tabu_search is a sequential program: a call that can take a step takes it
SpecFair == InitGraph /\ [][NextSearch]_vars /\ WF_position(NextSearch)

\* C19: for every neighbor function and every max_iterations, with or
\* without a stopping cost, tabu_search eventually returns, and it never
\* begins more than max_iterations iterations of its loop (every iteration
\* begun is one call of descendants).
C19_BoundedTermination ==
    /\ <>Done
    /\ [](desc_calls <= max_iterations)
    /\ [][(pc = "loop" /\ pc' = "inner") => desc_calls' = desc_calls + 1]_vars

\* a call that returned after its whole budget of iterations, without a
\* stopping cost, every move of it to a cheaper state than the one before
C19_Witness ==
    /\ Done
    /\ ~early
    /\ stopping_cost = None
    /\ max_iterations = MaxIter
    /\ iter = max_iterations
    /\ Len(walk) >= 3
    /\ \A i \in 1..(Len(walk) - 1) : Cost(walk[i + 1]) < Cost(walk[i])

=============================================================================
